---- MODULE Spec2Model ----
(***************************************************************************)
(* Authentication backend: user table (PostgreSQL), session cache (Redis), *)
(* JWT issue/verify, and the register / login / googleAuth / logout / me   *)
(* request handlers.  Every request is a process whose steps are the       *)
(* awaited accesses to the two stores, so that concurrent requests         *)
(* interleave exactly at the points where the code awaits.                 *)
(***************************************************************************)
EXTENDS Integers, Sequences, FiniteSets, TLC

\* ------------------------------------------------------------------ bounds
NumReq       == 2   \* request slots handled concurrently
MaxTokens    == 2   \* authentications that may mint a tokenId, concurrent requests
MaxTokensSeq == 3   \* the same, when requests are handled one after the other
MaxTime      == 1   \* clock ticks (seconds) explored
MaxExpiry    == 2   \* largest configured lifetime (seconds)
NumCalls     == 2   \* calls of the frontend that may await a response at once
NumQueries   == 3   \* calls of query() that may overlap
PoolSize     == 2   \* clients the pool hands out at most

\* ------------------------------------------------------- program constants
MinPasswordLength == 6
AuthLimitMax      == 5          \* attempts a client address may make per window
AuthWindowSeconds == 15 * 60    \* length of the limiter's window

Reqs == 1..NumReq

\* ------------------------------------------------------------------ inputs
\* Strings whose characters matter are sequences of characters.
EmailA   == <<"a", "@", "b", ".", "c">>
EmailAU  == <<"A", "@", "b", ".", "c">>
EmailZ   == <<"z", "@", "b", ".", "c">>
EmailBad == <<"a", "b">>
NoEmail  == <<>>

PwGood    == <<"s", "e", "c", "r", "e", "t">>
PwOther   == <<"S", "e", "c", "r", "e", "t">>
PwShort   == <<"s", "e", "c", "r", "e">>
NoPassword == <<>>

RegisterEmails    == {EmailA, EmailAU, EmailBad, NoEmail}
RegisterPasswords == {PwGood, PwShort, NoPassword}
LoginEmails       == {EmailA, EmailAU, NoEmail}
LoginPasswords    == {PwGood, PwOther, NoPassword}
GoogleIds         == {"g1", "g2"}
GoogleEmails      == {EmailA, EmailZ, NoEmail}

\* client addresses: Addr1 is followed by the limiter's store; Elsewhere stands for
\* the addresses that stay under their limit, whose counters are not kept
Addr1     == "ip1"
Elsewhere == "elsewhere"

Null     == "null"
NullHash == <<>>
NoUserId == 0

\* ---------------------------------------------------------- error messages
MsgRequired     == "Email and password are required"
MsgEmailFormat  == "Invalid email format"
MsgPwShort      == "Password must be at least 6 characters"
MsgConflict     == "Email already registered"
MsgBadLogin     == "Invalid email or password"
MsgOtherMethod  == "This account uses a different authentication method"
MsgNoGoogleMail == "Email not provided by Google"
MsgGoogleFailed == "Failed to authenticate with Google"
MsgUnique       == "duplicate key value violates unique constraint"
MsgMissingToken == "Missing authorization token"
MsgInvalidToken == "Invalid token"
MsgSessionGone  == "Session expired or invalid"
MsgNotFound     == "User not found"
MsgAuthFailed   == "Authentication failed"
MsgStoreDown    == "connect ECONNREFUSED"
MsgTooMany      == "Too many requests"
NoError         == ""

VARIABLES
    users,          \* rows of table users, in insertion order
    sessions,       \* Redis: tokenId -> [userId, expireAt]
    issued,         \* tokens returned to clients
    nextTokenId,    \* models uuidv4(): the next unused tokenId
    now,            \* clock, seconds
    jwtExpiry,      \* config.jwt.expiry, seconds
    sessionExpiry,  \* config.session.expiry, seconds
    pc,             \* position of each request
    loc,            \* locals of each request
    out,            \* the response sent last
    slots,          \* how many requests the exploration lets overlap
    tokenCap,       \* how many authentications the exploration follows
    server,         \* progress of startServer
    nextUserId,     \* models gen_random_uuid(): the next unused user id
    attempts,       \* authLimiter's store: client address -> [count, resetAt]
    localStorage,   \* the browser's localStorage: accessToken and user
    href,           \* window.location.href, the path only
    calls,          \* the frontend's calls that await a response
    result,         \* what the frontend call completed last met and returned
    checkedOut,     \* clients of the database pool that are checked out
    queries         \* the calls of query() and how far each has come

\* the state of the browser that runs the frontend
browser == <<localStorage, href, calls, result>>

\* the state of the database pool and of the calls of query()
dbpool == <<checkedOut, queries>>

vars == <<users, sessions, issued, nextTokenId, now, jwtExpiry, sessionExpiry, pc, loc, out, slots, tokenCap, server, nextUserId, attempts, browser, dbpool>>

\* ------------------------------------------------------------- string ops
\* String.prototype.toLowerCase, on the letters the inputs use.
LowerChar(c) ==
    CASE c = "A" -> "a"
      [] c = "Z" -> "z"
      [] c = "S" -> "s"
      [] OTHER -> c

toLowerCase(s) == [i \in 1..Len(s) |-> LowerChar(s[i])]

IsSpace(c) == c = " "

\* /^[^\s@]+@[^\s@]+\.[^\s@]+$/.test(email)
EmailRegexTest(s) ==
    /\ \A i \in 1..Len(s) : ~IsSpace(s[i])
    /\ Cardinality({i \in 1..Len(s) : s[i] = "@"}) = 1
    /\ \E i \in 1..Len(s) :
          /\ s[i] = "@"
          /\ i > 1
          /\ \E j \in (i + 2)..(Len(s) - 1) : s[j] = "."

\* JavaScript truthiness of a string: !s is true of undefined and of "".
Falsy(s) == Len(s) = 0

\* ------------------------------------------------------------ password.ts
hashPassword(password, salt) == <<"bcrypt", salt, password>>

comparePassword(password, hash) == Len(hash) = 3 /\ hash[3] = password

Salts == {"salt1"}

\* ------------------------------------------------------------- users table
\* an INSERT that leaves out the google_id column
NewRowNoGoogleId(id, email, password_hash, google_id, auth_method) ==
    [id |-> id, email |-> email, password_hash |-> password_hash,
     google_id |-> Null, auth_method |-> auth_method, is_active |-> TRUE]

\* INSERT INTO users ... RETURNING *  (id, is_active take their defaults)
NewRow(id, email, password_hash, google_id, auth_method) ==
    [id |-> id, email |-> email, password_hash |-> password_hash,
     google_id |-> google_id, auth_method |-> auth_method, is_active |-> TRUE]

\* a column email without its UNIQUE constraint
EmailNeverTaken(tbl, email) == FALSE

\* email VARCHAR(255) NOT NULL UNIQUE, google_id VARCHAR(255) UNIQUE
EmailTaken(tbl, email) == \E i \in 1..Len(tbl) : tbl[i].email = email

GoogleIdTaken(tbl, gid, exceptId) ==
    gid # Null /\ \E i \in 1..Len(tbl) : tbl[i].google_id = gid /\ tbl[i].id # exceptId

\* a lookup that compares the email as given, without lower-casing it
findByEmailAsGiven(tbl, email) ==
    LET hits == {i \in 1..Len(tbl) : tbl[i].email = email /\ tbl[i].is_active}
    IN  IF hits = {} THEN 0 ELSE CHOOSE i \in hits : \A j \in hits : i <= j

\* index of the row a lookup returns (result.rows[0]), 0 for null
findByEmail(tbl, email) ==
    LET hits == {i \in 1..Len(tbl) : tbl[i].email = toLowerCase(email) /\ tbl[i].is_active}
    IN  IF hits = {} THEN 0 ELSE CHOOSE i \in hits : \A j \in hits : i <= j

\* a lookup that forgets its WHERE id = $1 and returns the first active row
findByIdFirstRow(tbl, id) ==
    LET hits == {i \in 1..Len(tbl) : tbl[i].is_active}
    IN  IF hits = {} THEN 0 ELSE CHOOSE i \in hits : \A j \in hits : i <= j

findById(tbl, id) ==
    LET hits == {i \in 1..Len(tbl) : tbl[i].id = id /\ tbl[i].is_active}
    IN  IF hits = {} THEN 0 ELSE CHOOSE i \in hits : \A j \in hits : i <= j

findByGoogleId(tbl, gid) ==
    LET hits == {i \in 1..Len(tbl) : tbl[i].google_id = gid /\ tbl[i].is_active}
    IN  IF hits = {} THEN 0 ELSE CHOOSE i \in hits : \A j \in hits : i <= j

\* a profile that returns the row as stored
getUserProfileWholeRow(tbl, id) == tbl[findById(tbl, id)]

\* const { password_hash, ...safeUser } = user
getUserProfile(tbl, id) ==
    LET i == findById(tbl, id)
        u == tbl[i]
    IN  [id |-> u.id, email |-> u.email, google_id |-> u.google_id,
         auth_method |-> u.auth_method, is_active |-> u.is_active]

\* the user object the three authentication paths return
UserView(u) == [id |-> u.id, email |-> u.email, auth_method |-> u.auth_method]

\* ------------------------------------------------------------------- jwt
JwtSecret == "secret"

generateToken(userId, email, tokenId, iat, expiresIn) ==
    [userId |-> userId, email |-> email, tokenId |-> tokenId,
     exp |-> iat + expiresIn, sig |-> JwtSecret]

\* jwt.verify: the signature must match and the clock must be before exp
verifyToken(token, clock) == token.sig = JwtSecret /\ clock < token.exp

NoToken     == [userId |-> NoUserId, email |-> NoEmail, tokenId |-> 0, exp |-> 0, sig |-> "none"]
ForgedToken == [userId |-> 1, email |-> EmailA, tokenId |-> 1, exp |-> MaxTime + MaxExpiry + 2,
                sig |-> "forged"]

\* ----------------------------------------------------------------- redis
\* a store that keeps one session per user, dropping the user's earlier ones
storeSessionSingle(cache, userId, tokenId, ttl, clock) ==
    [k \in {t \in DOMAIN cache : cache[t].userId # userId} \cup {tokenId} |->
        IF k = tokenId THEN [userId |-> userId, expireAt |-> clock + ttl] ELSE cache[k]]

\* redis.setEx(key, ttl, userId)
storeSession(cache, userId, tokenId, ttl, clock) ==
    [k \in DOMAIN cache \cup {tokenId} |->
        IF k = tokenId THEN [userId |-> userId, expireAt |-> clock + ttl] ELSE cache[k]]

\* redis.get(key): the stored user id, or null
validateSession(cache, tokenId) ==
    IF tokenId \in DOMAIN cache THEN cache[tokenId].userId ELSE NoUserId

\* a delete that drops every session
invalidateSessionAll(cache, tokenId) == [k \in {} |-> cache[k]]

\* redis.del(key)
invalidateSession(cache, tokenId) ==
    [k \in DOMAIN cache \ {tokenId} |-> cache[k]]

\* keys whose time-to-live has run out are gone
ExpireKeys(cache, clock) ==
    [k \in {t \in DOMAIN cache : cache[t].expireAt > clock} |-> cache[k]]

\* ------------------------------------------------------------- responses
NoData == [none |-> TRUE]

Response(status, error, data) == [status |-> status, error |-> error, data |-> data]

NoResponse == Response(0, NoError, NoData)

\* a response together with the request it answers (the bearer token left out)
Answer(l, r) ==
    [kind |-> l.kind, email |-> l.email, password |-> l.password, googleId |-> l.googleId,
     addr |-> l.addr, status |-> r.status, error |-> r.error, data |-> r.data]

AuthData(token, u) == [accessToken |-> token, user |-> UserView(u)]

NoRow == NewRow(NoUserId, NoEmail, NullHash, Null, "none")

\* locals of a request: its inputs, the row held in `user`, the token it signed or presented
NoLoc == [kind |-> "none", email |-> NoEmail, password |-> NoPassword, googleId |-> Null,
          addr |-> Elsewhere, user |-> NoRow, token |-> NoToken]

\* ------------------------------------------------------------ rateLimit.ts
NoHits == <<>>

\* the limiter's store holds a counter for the address and the counter is at its maximum
limitReached(h, addr) == addr \in DOMAIN h /\ h[addr].count >= AuthLimitMax

\* one more attempt of the address in its window; the first one opens the window
countHit(h, addr, clock) ==
    IF addr = Elsewhere THEN h
    ELSE [k \in DOMAIN h \cup {addr} |->
            IF k # addr THEN h[k]
            ELSE IF addr \in DOMAIN h
                 THEN [h[addr] EXCEPT !.count = IF @ < AuthLimitMax THEN @ + 1 ELSE @]
                 ELSE [count |-> 1, resetAt |-> clock + AuthWindowSeconds]]

\* counters whose window is over are gone
ExpireHits(h, clock) == [k \in {a \in DOMAIN h : h[a].resetAt > clock} |-> h[k]]

\* routes registered without the limiter on login
LimitedRoutesRegisterOnly == {"register"}

\* router.post("/register", authLimiter, ...), router.post("/login", authLimiter, ...)
LimitedRoutes == {"register", "login"}

\* authLimiter in front of a route's controller: the attempt is rejected
Limited(kind, addr) == kind \in LimitedRoutes /\ limitReached(attempts, addr)

\* authLimiter in front of a route's controller: the store after the attempt
Counted(kind, addr) == IF kind \in LimitedRoutes THEN countHit(attempts, addr, now) ELSE attempts

\* ---------------------------------------------------------------- index.ts
\* startServer has not awaited anything yet
Starting == [phase |-> "testConnection", dbConnected |-> FALSE, redisConnected |-> FALSE]

\* a startServer that does not look at what testConnection returned
afterTestConnectionUnchecked(srv, connected) ==
    [srv EXCEPT !.phase = "initRedis", !.dbConnected = connected]

\* const dbConnected = await testConnection(); if (!dbConnected) throw ...; catch: process.exit(1)
afterTestConnection(srv, connected) ==
    IF connected
    THEN [srv EXCEPT !.phase = "initRedis", !.dbConnected = TRUE]
    ELSE [srv EXCEPT !.phase = "exit1"]

\* await initRedis(); app.listen(config.server.port, ...); catch: process.exit(1)
afterInitRedis(srv, connected) ==
    IF connected
    THEN [srv EXCEPT !.phase = "listening", !.redisConnected = TRUE]
    ELSE [srv EXCEPT !.phase = "exit1"]

Listening == server.phase = "listening"

\* ------------------------------------------------- database/connection.ts
Queries == 1..NumQueries

Clients == 1..PoolSize

NoClient == 0

\* a call of query(): where it is, the client it holds, how often it has released
\* the client it took, and how it ended
NoQuery == [at |-> "idle", client |-> NoClient, released |-> 0, ended |-> "none"]

\* const client = await pool.connect(): a client that is not checked out is handed
\* over (connected), or the promise rejects and query() throws without a client
QueryConnect(q, c, connected) ==
    /\ queries[q].at = "idle"
    /\ IF connected
       THEN /\ c \notin checkedOut
            /\ checkedOut' = checkedOut \cup {c}
            /\ queries' = [queries EXCEPT ![q] = [at |-> "query", client |-> c, released |-> 0,
                                                 ended |-> "none"]]
       ELSE /\ queries' = [queries EXCEPT ![q] = [NoQuery EXCEPT !.ended = "noClient"]]
            /\ UNCHANGED checkedOut
    /\ UNCHANGED <<users, sessions, issued, nextTokenId, now, jwtExpiry, sessionExpiry, pc, loc, out,
                   slots, tokenCap, server, nextUserId, attempts, browser>>

\* a query() whose release is written after the statement instead of in finally
QueryRunNoFinally(q, ok) ==
    /\ queries[q].at = "query"
    /\ IF ok
       THEN /\ checkedOut' = checkedOut \ {queries[q].client}
            /\ queries' = [queries EXCEPT ![q] = [@ EXCEPT !.at = "idle", !.released = @ + 1,
                                                             !.ended = "rows"]]
       ELSE /\ queries' = [queries EXCEPT ![q] = [@ EXCEPT !.at = "idle", !.ended = "threw"]]
            /\ UNCHANGED checkedOut
    /\ UNCHANGED <<users, sessions, issued, nextTokenId, now, jwtExpiry, sessionExpiry, pc, loc, out,
                   slots, tokenCap, server, nextUserId, attempts, browser>>

\* try { return await client.query(text, params) } finally { client.release() }
\* (ok: the statement returns rows; otherwise it throws)
QueryRun(q, ok) ==
    /\ queries[q].at = "query"
    /\ checkedOut' = checkedOut \ {queries[q].client}
    /\ queries' = [queries EXCEPT ![q] = [@ EXCEPT !.at = "idle", !.released = @ + 1,
                                                     !.ended = IF ok THEN "rows" ELSE "threw"]]
    /\ UNCHANGED <<users, sessions, issued, nextTokenId, now, jwtExpiry, sessionExpiry, pc, loc, out,
                   slots, tokenCap, server, nextUserId, attempts, browser>>

\* overlapping calls of query(), with statements that return and statements that throw
NextPool ==
    \/ \E q \in Queries, c \in Clients, connected \in BOOLEAN : QueryConnect(q, c, connected)
    \/ \E q \in Queries, ok \in BOOLEAN : QueryRun(q, ok)

\* ---------------------------------------------------------------- frontend
\* the variables of the backend, which the frontend's steps leave alone
backend == <<users, sessions, issued, nextTokenId, now, jwtExpiry, sessionExpiry, pc, loc, out,
             slots, tokenCap, server, nextUserId, attempts, dbpool>>

Calls == 1..NumCalls

\* what the server's answers carry, as the browser stores them
ClientTokens == {"jwt1", "jwt2"}
ClientUsers  == {"user1"}

\* statuses of the responses the browser may receive; NetworkError: fetch rejects
HttpStatuses == {200, 401, 500}
NetworkError == 0

\* Response.ok
ResponseOk(status) == status \in 200..299

\* localStorage without accessToken and user (getItem returns null for both)
NoItems == [accessToken |-> Null, user |-> Null]

\* JavaScript truthiness of an item read from localStorage
TruthyItem(item) == item \notin {Null, ""}

getToken(ls) == ls.accessToken

setToken(ls, token) == [ls EXCEPT !.accessToken = token]

setUser(ls, user) == [ls EXCEPT !.user = user]

\* return !!this.getToken()
isAuthenticated(ls) == TruthyItem(getToken(ls))

\* frontend AuthService.logout: removeItem("accessToken"); removeItem("user")
removeAuthItems(ls) == [ls EXCEPT !.accessToken = Null, !.user = Null]

\* the bearer token of getAuthHeaders(), Null when it returns {}
getAuthHeaders(ls) == IF TruthyItem(getToken(ls)) THEN getToken(ls) ELSE Null

NoCall == [fn |-> "idle", token |-> Null]

\* what a completed call met: the status of the response, whether response.json() resolved
Result(fn, status, parsed) == [fn |-> fn, status |-> status, parsed |-> parsed]

NoResult == Result("none", NetworkError, FALSE)

\* ApiClient.fetch up to `await fetch(url, ...)`, with the Authorization header it built
ApiFetchStart(c) ==
    /\ calls[c] = NoCall
    /\ calls' = [calls EXCEPT ![c] = [fn |-> "fetch", token |-> getAuthHeaders(localStorage)]]
    /\ UNCHANGED <<localStorage, href, result, backend>>

\* ApiClient.fetch from the response on: response.json(), the 401 branch, the catch block
ApiFetchResponse(c, status, parses) ==
    /\ calls[c].fn = "fetch"
    /\ calls' = [calls EXCEPT ![c] = NoCall]
    /\ result' = Result("fetch", status, status # NetworkError /\ parses)
    /\ IF status # NetworkError /\ parses /\ status = 401
       THEN /\ localStorage' = removeAuthItems(localStorage)
            /\ href' = "/login"
       ELSE UNCHANGED <<localStorage, href>>
    /\ UNCHANGED backend

\* logoutServer up to its fetch: without a token it returns at once
LogoutServerStart(c) ==
    /\ calls[c] = NoCall
    /\ IF ~TruthyItem(getToken(localStorage))
       THEN /\ result' = Result("logoutServer", NetworkError, FALSE)
            /\ UNCHANGED calls
       ELSE /\ calls' = [calls EXCEPT ![c] = [fn |-> "logoutServer", token |-> getToken(localStorage)]]
            /\ UNCHANGED result
    /\ UNCHANGED <<localStorage, href, backend>>

\* logoutServer after its fetch settled (any status, or rejected and caught): this.logout()
LogoutServerResponse(c, status) ==
    /\ calls[c].fn = "logoutServer"
    /\ calls' = [calls EXCEPT ![c] = NoCall]
    /\ result' = Result("logoutServer", status, FALSE)
    /\ localStorage' = removeAuthItems(localStorage)
    /\ UNCHANGED <<href, backend>>

\* frontend AuthService.login up to its fetch
ClientLoginStart(c) ==
    /\ calls[c] = NoCall
    /\ calls' = [calls EXCEPT ![c] = [fn |-> "login", token |-> Null]]
    /\ UNCHANGED <<localStorage, href, result, backend>>

\* frontend AuthService.login from the response on: it throws unless response.ok,
\* else stores data.data.accessToken and data.data.user
ClientLoginResponse(c, status, parses, token, user) ==
    /\ calls[c].fn = "login"
    /\ calls' = [calls EXCEPT ![c] = NoCall]
    /\ result' = Result("login", status, status # NetworkError /\ parses)
    /\ IF status # NetworkError /\ parses /\ ResponseOk(status)
       THEN localStorage' = setUser(setToken(localStorage, token), user)
       ELSE UNCHANGED localStorage
    /\ UNCHANGED <<href, backend>>

\* getProfile up to its fetch: it throws "Not authenticated" without a token
GetProfileStart(c) ==
    /\ calls[c] = NoCall
    /\ IF ~TruthyItem(getToken(localStorage))
       THEN /\ result' = Result("getProfile", NetworkError, FALSE)
            /\ UNCHANGED calls
       ELSE /\ calls' = [calls EXCEPT ![c] = [fn |-> "getProfile", token |-> getToken(localStorage)]]
            /\ UNCHANGED result
    /\ UNCHANGED <<localStorage, href, backend>>

\* getProfile from the response on: this.setUser(data.data) when response.ok
GetProfileResponse(c, status, parses, user) ==
    /\ calls[c].fn = "getProfile"
    /\ calls' = [calls EXCEPT ![c] = NoCall]
    /\ result' = Result("getProfile", status, status # NetworkError /\ parses)
    /\ IF status # NetworkError /\ parses /\ ResponseOk(status)
       THEN localStorage' = setUser(localStorage, user)
       ELSE UNCHANGED localStorage
    /\ UNCHANGED <<href, backend>>

\* the login page opened with ?token=...&user=... after the Google redirect
OAuthCallback(token, user) ==
    /\ localStorage' = IF user = Null THEN setToken(localStorage, token)
                       ELSE setUser(setToken(localStorage, token), user)
    /\ href' = "/trade"
    /\ result' = Result("oauthCallback", NetworkError, FALSE)
    /\ UNCHANGED <<calls, backend>>

\* the frontend's steps, for responses of every status and body
NextClient ==
    \/ \E c \in Calls : ApiFetchStart(c)
    \/ \E c \in Calls, status \in HttpStatuses \cup {NetworkError}, parses \in BOOLEAN :
          ApiFetchResponse(c, status, parses)
    \/ \E c \in Calls : LogoutServerStart(c)
    \/ \E c \in Calls, status \in HttpStatuses \cup {NetworkError} : LogoutServerResponse(c, status)
    \/ \E c \in Calls : ClientLoginStart(c)
    \/ \E c \in Calls, status \in HttpStatuses \cup {NetworkError}, parses \in BOOLEAN,
          token \in ClientTokens, user \in ClientUsers :
          ClientLoginResponse(c, status, parses, token, user)
    \/ \E c \in Calls : GetProfileStart(c)
    \/ \E c \in Calls, status \in HttpStatuses \cup {NetworkError}, parses \in BOOLEAN,
          user \in ClientUsers : GetProfileResponse(c, status, parses, user)
    \/ \E token \in ClientTokens, user \in ClientUsers \cup {Null} : OAuthCallback(token, user)

\* --------------------------------------------------------------- initial
\* the state after construction, for s overlapping requests and c authentications
Begin(s, c) ==
    /\ users = <<>>
    /\ sessions = <<>>
    /\ issued = {}
    /\ nextTokenId = 1
    /\ nextUserId = 1
    /\ now = 0
    /\ jwtExpiry \in 1..MaxExpiry
    /\ sessionExpiry \in 1..MaxExpiry
    /\ pc = [p \in Reqs |-> "idle"]
    /\ loc = [p \in Reqs |-> NoLoc]
    /\ out = Answer(NoLoc, NoResponse)
    /\ attempts = NoHits
    /\ server = Starting
    /\ slots = s
    /\ tokenCap = c
    /\ localStorage = NoItems
    /\ href = "/"
    /\ calls = [k \in Calls |-> NoCall]
    /\ result = NoResult
    /\ checkedOut = {}
    /\ queries = [q \in Queries |-> NoQuery]

Init == Begin(NumReq, MaxTokens)

\* ------------------------------------------------------------- scheduling
Free(p) == pc[p] = "idle" /\ p <= slots /\ Listening

\* requests that will still mint a tokenId
Unminted == {p \in Reqs : pc[p] \in {"reg_create", "g_findEmail", "g_create", "g_update"}}

TokenCap == tokenCap

CanAuthenticate == nextTokenId + Cardinality(Unminted) <= TokenCap

Finish(p, response, l) ==
    /\ pc' = [pc EXCEPT ![p] = "idle"]
    /\ out' = Answer(l, response)
    /\ loc' = [loc EXCEPT ![p] = NoLoc]

Goto(p, label, l) ==
    /\ pc' = [pc EXCEPT ![p] = label]
    /\ loc' = [loc EXCEPT ![p] = l]
    /\ UNCHANGED out

\* a token whose tokenId is derived from the user instead of being fresh
MintPerUser(u) == generateToken(u.id, u.email, u.id, now, jwtExpiry)

\* const tokenId = uuidv4(); const accessToken = generateToken({userId, email}, tokenId)
Mint(u) == generateToken(u.id, u.email, nextTokenId, now, jwtExpiry)

\* ---------------------------------------------------------- startServer
\* await testConnection(): SELECT NOW() answers, or the query throws
StartTestConnection(connected) ==
    /\ server.phase = "testConnection"
    /\ server' = afterTestConnection(server, connected)
    /\ UNCHANGED <<users, sessions, issued, nextTokenId, now, jwtExpiry, sessionExpiry, pc, loc, out,
                   slots, tokenCap, nextUserId, attempts>>
    /\ UNCHANGED <<browser, dbpool>>

\* await initRedis(): redisClient.connect() resolves, or throws
StartInitRedis(connected) ==
    /\ server.phase = "initRedis"
    /\ server' = afterInitRedis(server, connected)
    /\ UNCHANGED <<users, sessions, issued, nextTokenId, now, jwtExpiry, sessionExpiry, pc, loc, out,
                   slots, tokenCap, nextUserId, attempts>>
    /\ UNCHANGED <<browser, dbpool>>

\* ---------------------------------------------------- AuthService.register
\* lines 28-38: the message of the validation error, NoError when the input is valid
RegisterValidate(email, password) ==
    IF Falsy(email) \/ Falsy(password) THEN MsgRequired
    ELSE IF ~EmailRegexTest(email) THEN MsgEmailFormat
    ELSE IF Len(password) < MinPasswordLength THEN MsgPwShort
    ELSE NoError

\* lines 41-44: the outcome of the check for an existing user
RegisterConflict(tbl, email) == findByEmail(tbl, email) # 0

\* POST /auth/register: authLimiter, then the controller up to and including
\* UserModel.findByEmail (ok: the query answers)
RegisterStart(p, email, password, addr, ok) ==
    /\ Free(p)
    /\ CanAuthenticate
    /\ attempts' = Counted("register", addr)
    /\ LET l == [NoLoc EXCEPT !.kind = "register", !.email = email, !.password = password,
                              !.addr = addr]
           v == RegisterValidate(email, password)
       IN  IF Limited("register", addr) THEN Finish(p, Response(429, MsgTooMany, NoData), l)
           ELSE IF v # NoError THEN Finish(p, Response(400, v, NoData), l)
           ELSE IF ~ok THEN Finish(p, Response(400, MsgStoreDown, NoData), l)
           ELSE IF RegisterConflict(users, email)
                THEN Finish(p, Response(400, MsgConflict, NoData), l)
                ELSE Goto(p, "reg_create", l)
    /\ UNCHANGED <<users, sessions, issued, nextTokenId, now, jwtExpiry, sessionExpiry, slots, tokenCap, server, nextUserId>>
    /\ UNCHANGED <<browser, dbpool>>

\* hashPassword, UserModel.create, uuidv4, generateToken (ok: the INSERT reaches the store)
RegisterCreate(p, ok) ==
    /\ pc[p] = "reg_create"
    /\ \E salt \in Salts :
         LET e   == toLowerCase(loc[p].email)
             row == NewRow(nextUserId, e, hashPassword(loc[p].password, salt), Null, "email")
         IN  IF ~ok
             THEN /\ Finish(p, Response(400, MsgStoreDown, NoData), loc[p])
                  /\ UNCHANGED <<users, nextTokenId, nextUserId>>
             ELSE IF EmailTaken(users, e)
             THEN /\ Finish(p, Response(400, MsgUnique, NoData), loc[p])
                  /\ UNCHANGED <<users, nextTokenId, nextUserId>>
             ELSE /\ users' = Append(users, row)
                  /\ nextUserId' = nextUserId + 1
                  /\ nextTokenId' = nextTokenId + 1
                  /\ Goto(p, "reg_store", [loc[p] EXCEPT !.user = row, !.token = Mint(row)])
    /\ UNCHANGED <<sessions, issued, now, jwtExpiry, sessionExpiry, slots, tokenCap, server, attempts>>
    /\ UNCHANGED <<browser, dbpool>>

\* storeSession(user.id, tokenId, config.session.expiry) and the 201 response
\* (ok: Redis takes the write)
RegisterStore(p, ok) ==
    /\ pc[p] = "reg_store"
    /\ IF ok
       THEN /\ sessions' = storeSession(sessions, loc[p].user.id, loc[p].token.tokenId, sessionExpiry, now)
            /\ issued' = issued \cup {loc[p].token}
            /\ Finish(p, Response(201, NoError, AuthData(loc[p].token, loc[p].user)), loc[p])
       ELSE /\ Finish(p, Response(400, MsgStoreDown, NoData), loc[p])
            /\ UNCHANGED <<sessions, issued>>
    /\ UNCHANGED <<users, nextTokenId, now, jwtExpiry, sessionExpiry, slots, tokenCap, server, nextUserId, attempts>>
    /\ UNCHANGED <<browser, dbpool>>

\* ------------------------------------------------------- AuthService.login
\* a login that turns away every account whose auth_method is not "email"
LoginErrorByMethod(tbl, email, password) ==
    IF Falsy(email) \/ Falsy(password) THEN MsgRequired
    ELSE LET i == findByEmail(tbl, email)
         IN  IF i = 0 THEN MsgBadLogin
             ELSE IF tbl[i].auth_method # "email" THEN MsgOtherMethod
             ELSE IF ~comparePassword(password, tbl[i].password_hash) THEN MsgBadLogin
             ELSE NoError

\* lines 86-105: the message login fails with, NoError when the credentials are good
LoginError(tbl, email, password) ==
    IF Falsy(email) \/ Falsy(password) THEN MsgRequired
    ELSE LET i == findByEmail(tbl, email)
         IN  IF i = 0 THEN MsgBadLogin
             ELSE IF tbl[i].password_hash = NullHash THEN MsgOtherMethod
             ELSE IF ~comparePassword(password, tbl[i].password_hash) THEN MsgBadLogin
             ELSE NoError

\* a login that writes the session before it has compared the password
LoginStartStoreFirst(p, email, password, addr, ok) ==
    /\ Free(p)
    /\ CanAuthenticate
    /\ attempts' = Counted("login", addr)
    /\ LET l == [NoLoc EXCEPT !.kind = "login", !.email = email, !.password = password,
                              !.addr = addr]
           e == LoginError(users, email, password)
           i == findByEmail(users, email)
           u == users[i]
       IN  IF Limited("login", addr) \/ e = MsgRequired \/ ~ok \/ i = 0
           THEN /\ Finish(p, Response(IF Limited("login", addr) THEN 429 ELSE 401, e, NoData), l)
                /\ UNCHANGED <<nextTokenId, sessions>>
           ELSE IF e # NoError
           THEN /\ Finish(p, Response(401, e, NoData), l)
                /\ sessions' = storeSession(sessions, u.id, nextTokenId, sessionExpiry, now)
                /\ UNCHANGED nextTokenId
           ELSE /\ nextTokenId' = nextTokenId + 1
                /\ Goto(p, "login_store", [l EXCEPT !.user = u, !.token = Mint(u)])
                /\ UNCHANGED sessions
    /\ UNCHANGED <<users, issued, now, jwtExpiry, sessionExpiry, slots, tokenCap, server, nextUserId>>
    /\ UNCHANGED <<browser, dbpool>>

\* POST /auth/login: authLimiter, then the controller up to generateToken
\* (ok: the query of findByEmail answers)
LoginStart(p, email, password, addr, ok) ==
    /\ Free(p)
    /\ CanAuthenticate
    /\ attempts' = Counted("login", addr)
    /\ LET l == [NoLoc EXCEPT !.kind = "login", !.email = email, !.password = password,
                              !.addr = addr]
           e == LoginError(users, email, password)
           u == users[findByEmail(users, email)]
       IN  IF Limited("login", addr)
           THEN /\ Finish(p, Response(429, MsgTooMany, NoData), l)
                /\ UNCHANGED nextTokenId
           ELSE IF e = MsgRequired
           THEN /\ Finish(p, Response(401, e, NoData), l)
                /\ UNCHANGED nextTokenId
           ELSE IF ~ok
           THEN /\ Finish(p, Response(401, MsgStoreDown, NoData), l)
                /\ UNCHANGED nextTokenId
           ELSE IF e # NoError
           THEN /\ Finish(p, Response(401, e, NoData), l)
                /\ UNCHANGED nextTokenId
           ELSE /\ nextTokenId' = nextTokenId + 1
                /\ Goto(p, "login_store", [l EXCEPT !.user = u, !.token = Mint(u)])
    /\ UNCHANGED <<users, sessions, issued, now, jwtExpiry, sessionExpiry, slots, tokenCap, server, nextUserId>>
    /\ UNCHANGED <<browser, dbpool>>

\* storeSession and the 200 response (ok: Redis takes the write)
LoginStore(p, ok) ==
    /\ pc[p] = "login_store"
    /\ IF ok
       THEN /\ sessions' = storeSession(sessions, loc[p].user.id, loc[p].token.tokenId, sessionExpiry, now)
            /\ issued' = issued \cup {loc[p].token}
            /\ Finish(p, Response(200, NoError, AuthData(loc[p].token, loc[p].user)), loc[p])
       ELSE /\ Finish(p, Response(401, MsgStoreDown, NoData), loc[p])
            /\ UNCHANGED <<sessions, issued>>
    /\ UNCHANGED <<users, nextTokenId, now, jwtExpiry, sessionExpiry, slots, tokenCap, server, nextUserId, attempts>>
    /\ UNCHANGED <<browser, dbpool>>

\* -------------------------------------------------- AuthService.googleAuth
\* GET /auth/google/callback: the strategy's verify callback up to findByGoogleId
GoogleStart(p, googleId, email) ==
    /\ Free(p)
    /\ CanAuthenticate
    /\ LET l == [NoLoc EXCEPT !.kind = "google", !.googleId = googleId, !.email = email]
           i == findByGoogleId(users, googleId)
       IN  IF Falsy(email)
           THEN /\ Finish(p, Response(500, MsgNoGoogleMail, NoData), l)
                /\ UNCHANGED nextTokenId
           ELSE IF i # 0
                THEN /\ nextTokenId' = nextTokenId + 1
                     /\ Goto(p, "g_store", [l EXCEPT !.user = users[i], !.token = Mint(users[i])])
                ELSE /\ Goto(p, "g_findEmail", l)
                     /\ UNCHANGED nextTokenId
    /\ UNCHANGED <<users, sessions, issued, now, jwtExpiry, sessionExpiry, slots, tokenCap, server, nextUserId, attempts>>
    /\ UNCHANGED <<browser, dbpool>>

\* user = await UserModel.findByEmail(email)
GoogleFindByEmail(p) ==
    /\ pc[p] = "g_findEmail"
    /\ LET i == findByEmail(users, loc[p].email)
       IN  IF i = 0 THEN Goto(p, "g_create", loc[p])
           ELSE Goto(p, "g_update", [loc[p] EXCEPT !.user = users[i]])
    /\ UNCHANGED <<users, sessions, issued, nextTokenId, now, jwtExpiry, sessionExpiry, slots, tokenCap, server, nextUserId, attempts>>
    /\ UNCHANGED <<browser, dbpool>>

\* UserModel.create({email, google_id, auth_method: "google"})
GoogleCreate(p) ==
    /\ pc[p] = "g_create"
    /\ LET e   == toLowerCase(loc[p].email)
           row == NewRow(nextUserId, e, NullHash, loc[p].googleId, "google")
       IN  IF EmailTaken(users, e) \/ GoogleIdTaken(users, loc[p].googleId, NoUserId)
           THEN /\ Finish(p, Response(500, MsgUnique, NoData), loc[p])
                /\ UNCHANGED <<users, nextTokenId, nextUserId>>
           ELSE /\ users' = Append(users, row)
                /\ nextUserId' = nextUserId + 1
                /\ nextTokenId' = nextTokenId + 1
                /\ Goto(p, "g_store", [loc[p] EXCEPT !.user = row, !.token = Mint(row)])
    /\ UNCHANGED <<sessions, issued, now, jwtExpiry, sessionExpiry, slots, tokenCap, server, attempts>>
    /\ UNCHANGED <<browser, dbpool>>

\* an UPDATE that rewrites the whole row and so loses the password hash
updateWholeRow(tbl, id, googleId, authMethod) ==
    [i \in 1..Len(tbl) |->
        IF tbl[i].id = id
        THEN NewRow(id, tbl[i].email, NullHash, googleId, authMethod)
        ELSE tbl[i]]

\* an UPDATE that sets google_id only where the record has none
updateKeepLink(tbl, id, googleId, authMethod) ==
    [i \in 1..Len(tbl) |->
        IF tbl[i].id = id /\ tbl[i].google_id = Null
        THEN [tbl[i] EXCEPT !.google_id = googleId, !.auth_method = authMethod]
        ELSE tbl[i]]

\* UPDATE users SET google_id = $1, auth_method = $2, ... WHERE id = $4 RETURNING *
update(tbl, id, googleId, authMethod) ==
    [i \in 1..Len(tbl) |->
        IF tbl[i].id = id
        THEN [tbl[i] EXCEPT !.google_id = googleId, !.auth_method = authMethod]
        ELSE tbl[i]]

\* UserModel.update(user.id, {google_id, auth_method: "google", ...}); the UPDATE
\* returns no row when the record is gone, and googleAuth then throws
GoogleUpdate(p) ==
    /\ pc[p] = "g_update"
    /\ LET id   == loc[p].user.id
           tbl  == update(users, id, loc[p].googleId, "google")
           rows == {i \in 1..Len(tbl) : tbl[i].id = id}
           row  == tbl[CHOOSE i \in rows : TRUE]
       IN  IF rows = {}
           THEN /\ Finish(p, Response(500, MsgGoogleFailed, NoData), loc[p])
                /\ UNCHANGED <<users, nextTokenId>>
           ELSE IF GoogleIdTaken(users, loc[p].googleId, id)
           THEN /\ Finish(p, Response(500, MsgUnique, NoData), loc[p])
                /\ UNCHANGED <<users, nextTokenId>>
           ELSE /\ users' = tbl
                /\ nextTokenId' = nextTokenId + 1
                /\ Goto(p, "g_store", [loc[p] EXCEPT !.user = row, !.token = Mint(row)])
    /\ UNCHANGED <<sessions, issued, now, jwtExpiry, sessionExpiry, slots, tokenCap, server, nextUserId, attempts>>
    /\ UNCHANGED <<browser, dbpool>>

\* storeSession, done(null, {authResult}), and the redirect of googleCallback
GoogleStore(p) ==
    /\ pc[p] = "g_store"
    /\ sessions' = storeSession(sessions, loc[p].user.id, loc[p].token.tokenId, sessionExpiry, now)
    /\ issued' = issued \cup {loc[p].token}
    /\ Finish(p, Response(302, NoError, AuthData(loc[p].token, loc[p].user)), loc[p])
    /\ UNCHANGED <<users, nextTokenId, now, jwtExpiry, sessionExpiry, slots, tokenCap, server, nextUserId, attempts>>
    /\ UNCHANGED <<browser, dbpool>>

\* ---------------------------------------------------------- authMiddleware
\* authMiddleware without the look-up of the session (signature check only)
authMiddlewareSignatureOnly(token, cache, clock) ==
    IF token = NoToken THEN Response(401, MsgMissingToken, NoData)
    ELSE IF ~verifyToken(token, clock) THEN Response(401, MsgInvalidToken, NoData)
    ELSE Response(0, NoError, NoData)

\* the 401 response, or status 0 when req.user is set and next() is called
authMiddleware(token, cache, clock) ==
    IF token = NoToken THEN Response(401, MsgMissingToken, NoData)
    ELSE IF ~verifyToken(token, clock) THEN Response(401, MsgInvalidToken, NoData)
    ELSE IF validateSession(cache, token.tokenId) = NoUserId
         THEN Response(401, MsgSessionGone, NoData)
         ELSE Response(0, NoError, NoData)

\* authMiddleware with its catch block: redis.get throws when ok is false
authMiddlewareTry(token, cache, clock, ok) ==
    IF token # NoToken /\ verifyToken(token, clock) /\ ~ok
    THEN Response(401, MsgAuthFailed, NoData)
    ELSE authMiddleware(token, cache, clock)

\* ------------------------------------------------------------ optionalAuth
\* req.user after optionalAuth: the payload of a token that verifies, NoToken when
\* req.user stays undefined; the session cache is not consulted
optionalAuth(token, clock) ==
    IF token # NoToken /\ verifyToken(token, clock) THEN token ELSE NoToken

\* a request on a route guarded by optionalAuth: next() is always called
OptionalAuthRequest(token) ==
    /\ Listening
    /\ out' = [Answer(NoLoc, Response(0, NoError, [reqUser |-> optionalAuth(token, now)]))
               EXCEPT !.kind = "optionalAuth"]
    /\ UNCHANGED <<users, sessions, issued, nextTokenId, now, jwtExpiry, sessionExpiry, pc, loc,
                   slots, tokenCap, server, nextUserId, attempts>>
    /\ UNCHANGED <<browser, dbpool>>

\* what a client can put in the Authorization header
Presentable == issued \cup {NoToken, ForgedToken}

\* a middleware that renews the time-to-live of the session it has verified
MeStartRefreshing(p, token, ok) ==
    /\ Free(p)
    /\ LET l == [NoLoc EXCEPT !.kind = "me", !.token = token]
           r == authMiddlewareTry(token, sessions, now, ok)
       IN  IF r.status = 401
           THEN Finish(p, r, l) /\ UNCHANGED sessions
           ELSE /\ Goto(p, "me_profile", l)
                /\ sessions' = storeSession(sessions, token.userId, token.tokenId, sessionExpiry, now)
    /\ UNCHANGED <<users, issued, nextTokenId, now, jwtExpiry, sessionExpiry, slots, tokenCap, server, nextUserId, attempts>>
    /\ UNCHANGED <<browser, dbpool>>

\* GET /auth/me: authMiddleware
MeStart(p, token, ok) ==
    /\ Free(p)
    /\ LET l == [NoLoc EXCEPT !.kind = "me", !.token = token]
           r == authMiddlewareTry(token, sessions, now, ok)
       IN  IF r.status = 401 THEN Finish(p, r, l) ELSE Goto(p, "me_profile", l)
    /\ UNCHANGED <<users, sessions, issued, nextTokenId, now, jwtExpiry, sessionExpiry, slots, tokenCap, server, nextUserId, attempts>>
    /\ UNCHANGED <<browser, dbpool>>

\* AuthController.me: UserModel.getUserProfile(req.user.userId) (ok: the query answers)
MeProfile(p, ok) ==
    /\ pc[p] = "me_profile"
    /\ IF ~ok
       THEN Finish(p, Response(400, MsgStoreDown, NoData), loc[p])
       ELSE IF findById(users, loc[p].token.userId) = 0
       THEN Finish(p, Response(404, MsgNotFound, NoData), loc[p])
       ELSE Finish(p, Response(200, NoError, getUserProfile(users, loc[p].token.userId)), loc[p])
    /\ UNCHANGED <<users, sessions, issued, nextTokenId, now, jwtExpiry, sessionExpiry, slots, tokenCap, server, nextUserId, attempts>>
    /\ UNCHANGED <<browser, dbpool>>

\* POST /auth/logout: authMiddleware
LogoutStart(p, token, ok) ==
    /\ Free(p)
    /\ LET l == [NoLoc EXCEPT !.kind = "logout", !.token = token]
           r == authMiddlewareTry(token, sessions, now, ok)
       IN  IF r.status = 401 THEN Finish(p, r, l) ELSE Goto(p, "logout_del", l)
    /\ UNCHANGED <<users, sessions, issued, nextTokenId, now, jwtExpiry, sessionExpiry, slots, tokenCap, server, nextUserId, attempts>>
    /\ UNCHANGED <<browser, dbpool>>

\* AuthService.logout(tokenId): invalidateSession(tokenId)
logout(cache, tokenId) == invalidateSession(cache, tokenId)

\* AuthController.logout: AuthService.logout(req.user.tokenId) and the 200 response
\* (ok: Redis takes the delete)
LogoutInvalidate(p, ok) ==
    /\ pc[p] = "logout_del"
    /\ IF ok
       THEN /\ sessions' = logout(sessions, loc[p].token.tokenId)
            /\ Finish(p, Response(200, NoError, NoData), loc[p])
       ELSE /\ Finish(p, Response(400, MsgStoreDown, NoData), loc[p])
            /\ UNCHANGED sessions
    /\ UNCHANGED <<users, issued, nextTokenId, now, jwtExpiry, sessionExpiry, slots, tokenCap, server, nextUserId, attempts>>
    /\ UNCHANGED <<browser, dbpool>>

\* ------------------------------------------- AuthService.validateSession
\* what `await storeSession(userId, tokenId)` evaluates to: the function returns nothing
storeSessionResult == NoUserId

\* const storedUserId = await storeSession(userId, tokenId); return storedUserId === userId
\* (the call passes no ttl, so storeSession takes its default, config.session.expiry)
ServiceValidateSession(tokenId, userId) ==
    /\ Listening
    /\ sessions' = storeSession(sessions, userId, tokenId, sessionExpiry, now)
    /\ out' = [Answer(NoLoc, Response(0, NoError,
                  [tokenId |-> tokenId, userId |-> userId,
                   verdict |-> (storeSessionResult = userId)]))
               EXCEPT !.kind = "validateSession"]
    /\ UNCHANGED <<users, issued, nextTokenId, now, jwtExpiry, sessionExpiry, pc, loc,
                   slots, tokenCap, server, nextUserId, attempts>>
    /\ UNCHANGED <<browser, dbpool>>

\* ------------------------------------------------------------- init.ts
\* DROP TABLE IF EXISTS users CASCADE; CREATE TABLE IF NOT EXISTS users (...)
initializeDatabase ==
    /\ users # <<>>
    /\ users' = <<>>
    /\ UNCHANGED <<sessions, issued, nextTokenId, now, jwtExpiry, sessionExpiry, pc, loc, out,
                   slots, tokenCap, server, nextUserId, attempts>>
    /\ UNCHANGED <<browser, dbpool>>

\* ------------------------------------------------------------------ clock
\* d seconds pass; Redis drops the keys whose time-to-live ran out, the limiter
\* the counters whose window is over
Tick(d) ==
    /\ now < MaxTime
    /\ now' = now + d
    /\ sessions' = ExpireKeys(sessions, now + d)
    /\ attempts' = ExpireHits(attempts, now + d)
    /\ UNCHANGED <<users, issued, nextTokenId, jwtExpiry, sessionExpiry, pc, loc, out, slots, tokenCap, server, nextUserId>>
    /\ UNCHANGED <<browser, dbpool>>

\* the steps of the program, for requests from the addresses Addrs, store accesses
\* that answer as in Oks, and clock steps of the lengths in Steps
Step(Addrs, Oks, Steps) ==
    \/ \E connected \in BOOLEAN : StartTestConnection(connected)
    \/ \E connected \in BOOLEAN : StartInitRedis(connected)
    \/ \E p \in Reqs, email \in RegisterEmails, password \in RegisterPasswords, addr \in Addrs, ok \in Oks :
          RegisterStart(p, email, password, addr, ok)
    \/ \E p \in Reqs, ok \in Oks : RegisterCreate(p, ok)
    \/ \E p \in Reqs, ok \in Oks : RegisterStore(p, ok)
    \/ \E p \in Reqs, email \in LoginEmails, password \in LoginPasswords, addr \in Addrs, ok \in Oks :
          LoginStart(p, email, password, addr, ok)
    \/ \E p \in Reqs, ok \in Oks : LoginStore(p, ok)
    \/ \E p \in Reqs, g \in GoogleIds, email \in GoogleEmails : GoogleStart(p, g, email)
    \/ \E p \in Reqs : GoogleFindByEmail(p)
    \/ \E p \in Reqs : GoogleCreate(p)
    \/ \E p \in Reqs : GoogleUpdate(p)
    \/ \E p \in Reqs : GoogleStore(p)
    \/ \E p \in Reqs, t \in Presentable, ok \in Oks : MeStart(p, t, ok)
    \/ \E p \in Reqs, ok \in Oks : MeProfile(p, ok)
    \/ \E p \in Reqs, t \in Presentable, ok \in Oks : LogoutStart(p, t, ok)
    \/ \E p \in Reqs, ok \in Oks : LogoutInvalidate(p, ok)
    \/ \E d \in Steps : Tick(d)

\* both stores answer every access; clients stay under the limiter's maximum
Next == Step({Elsewhere}, {TRUE}, {1})

Spec == Init /\ [][Next]_vars

\* the same program with its requests handled one after the other
InitSeq == Begin(1, MaxTokensSeq)

SpecSeq == InitSeq /\ [][Next]_vars

InitOne == Begin(1, MaxTokens)

\* requests handled one after the other, all of them from the address the
\* limiter's store follows; the clock may also step by a whole window
NextLimit == Step({Addr1}, {TRUE}, {1, AuthWindowSeconds})

SpecLimit == InitOne /\ [][NextLimit]_vars

\* requests handled one after the other, with store accesses that may fail
NextFault == Step({Elsewhere}, BOOLEAN, {1})

SpecFault == InitOne /\ [][NextFault]_vars

\* the schema script run again while the server is up
NextReset == Next \/ initializeDatabase

SpecReset == InitOne /\ [][NextReset]_vars

\* AuthService.validateSession called with the tokenId of an issued token and the
\* user id of an issued token, the same token's or another one's
NextService == Next \/ \E t, u \in issued : ServiceValidateSession(t.tokenId, u.userId)

SpecService == InitOne /\ [][NextService]_vars

\* a route guarded by optionalAuth
NextOptional == Next \/ \E t \in Presentable : OptionalAuthRequest(t)

SpecOptional == InitOne /\ [][NextOptional]_vars

\* the frontend in one browser, its server left out
SpecClient == InitOne /\ [][NextClient]_vars

\* the database pool under calls of query()
SpecPool == InitOne /\ [][NextPool]_vars

\* ================================================================= claims
HasEntry(t) == t.tokenId \in DOMAIN sessions

Accepted(p) == pc[p] = "idle" /\ pc'[p] \in {"me_profile", "logout_del"}

\* C1: authMiddleware lets a request through only if, at the moment of the check,
\* the session cache holds an entry for the token's tokenId; a token whose entry
\* was deleted by logout or removed by expiry is answered 401 on /auth/me and
\* /auth/logout although its signature still verifies.
C1_AcceptOnlyLive ==
    /\ [][\A p \in Reqs : Accepted(p) => loc'[p].token.tokenId \in DOMAIN sessions]_vars
    /\ [](\A t \in issued : ~HasEntry(t) => authMiddleware(t, sessions, now).status = 401)

\* C1 witness: a profile request was answered 401 for a missing session while an
\* issued token with a good signature has no entry left.
C1_Witness ==
    /\ out.kind = "me"
    /\ out.error = MsgSessionGone
    /\ \E t \in issued : verifyToken(t, now) /\ ~HasEntry(t)

\* C2: while the entry session:<tokenId> of an issued token is in the cache,
\* authMiddleware accepts the token, whatever token lifetime and session
\* time-to-live are configured.
C2_EntrySuffices ==
    \A t \in issued : HasEntry(t) => authMiddleware(t, sessions, now).status # 401

\* C3: of two register requests with the same valid email on an empty store,
\* under every interleaving of their steps, one succeeds and the other fails with
\* the conflict error, and one user record with that email exists afterwards.
C3_LoserGetsConflict ==
    /\ (out.kind = "register" /\ out.status = 400
            /\ RegisterValidate(out.email, out.password) = NoError)
        => out.error = MsgConflict
    /\ \A i, j \in 1..Len(users) : users[i].email = users[j].email => i = j

\* C4: login fails with one and the same message when the email is unknown, when
\* the record has no password hash, and when the password does not match.
C4_OneMessage ==
    (out.kind = "login" /\ out.status = 401 /\ ~Falsy(out.email) /\ ~Falsy(out.password))
        => out.error = MsgBadLogin

Linked(p) == pc[p] = "g_update" /\ pc'[p] = "g_store"

GoogleBegun(p) == pc[p] = "idle" /\ pc'[p] # "idle" /\ loc'[p].kind = "google"

\* C5 (as amended): linking sets google_id on the existing record, adds no record
\* and keeps id, email and password hash of every record; a googleAuth whose
\* profile has an email and whose Google id is on a record at that moment returns
\* that record's user, found by findByGoogleId without a lookup by email.
C5_LinkThenResolveById ==
    /\ [][\A p \in Reqs : Linked(p) =>
            /\ Len(users') = Len(users)
            /\ \A i \in 1..Len(users) :
                  /\ users'[i].id = users[i].id
                  /\ users'[i].email = users[i].email
                  /\ users'[i].password_hash = users[i].password_hash
                  /\ users[i].id = loc[p].user.id => users'[i].google_id = loc[p].googleId
                  /\ users[i].id # loc[p].user.id => users'[i] = users[i]]_vars
    /\ [][\A p \in Reqs : GoogleBegun(p) =>
            \A i \in 1..Len(users) :
                users[i].google_id = loc'[p].googleId =>
                    pc'[p] = "g_store" /\ loc'[p].user.id = users[i].id]_vars

\* C5 witness: requests handled in turn; the last answer was a googleAuth success
\* for an email-registered user, and the next googleAuth with the same Google id
\* holds that same user on its way to storeSession.
C5_Witness ==
    /\ slots = 1
    /\ out.kind = "google" /\ out.status = 302
    /\ pc[1] = "g_store"
    /\ loc[1].googleId = out.googleId
    /\ loc[1].user.id = out.data.user.id
    /\ loc[1].user.password_hash # NullHash

\* C5 (as stated): once a Google id is linked to an email-registered record, every
\* later googleAuth with that Google id is resolved by findByGoogleId to that record.
C5_EveryLaterResolvesById ==
    [][\A i \in 1..Len(users) :
          (users[i].password_hash # NullHash /\ users[i].google_id # Null)
              => findByGoogleId(users', users[i].google_id) = i]_vars

Stored(p) == pc[p] \in {"reg_store", "login_store", "g_store"} /\ pc'[p] = "idle"

LoggedOut(p) == pc[p] = "logout_del" /\ pc'[p] = "idle"

\* C6: logout(tokenId) for a tokenId without a session entry raises no error and
\* leaves the cache unchanged; calling it twice leaves the cache as calling it once.
C6_LogoutIdempotent ==
    /\ [][\A p \in Reqs : LoggedOut(p) =>
            /\ out'.status = 200
            /\ loc[p].token.tokenId \notin DOMAIN sessions'
            /\ loc[p].token.tokenId \notin DOMAIN sessions => sessions' = sessions]_vars
    /\ [](\A t \in issued :
            /\ logout(logout(sessions, t.tokenId), t.tokenId) = logout(sessions, t.tokenId)
            /\ ~HasEntry(t) => logout(sessions, t.tokenId) = sessions)

\* C6 witness: one logout has been answered 200 and a second logout, already past
\* authMiddleware, is about to delete an entry that is no longer there.
C6_Witness ==
    /\ out.kind = "logout" /\ out.status = 200
    /\ \E p \in Reqs : pc[p] = "logout_del" /\ loc[p].token.tokenId \notin DOMAIN sessions
    /\ sessions # <<>>

\* C7: a further successful authentication adds its entry and keeps every earlier
\* entry; logout of one tokenId deletes only that entry; the other tokens, of the
\* same user and of other users, are accepted by authMiddleware as before.
C7_SessionsIndependent ==
    [][\A p \in Reqs :
        /\ Stored(p) =>
              \A k \in DOMAIN sessions : k \in DOMAIN sessions' /\ sessions'[k] = sessions[k]
        /\ LoggedOut(p) =>
              \A k \in DOMAIN sessions \ {loc[p].token.tokenId} :
                  k \in DOMAIN sessions' /\ sessions'[k] = sessions[k]
        /\ (Stored(p) \/ LoggedOut(p)) =>
              \A t \in issued :
                  t.tokenId # loc[p].token.tokenId =>
                      authMiddleware(t, sessions', now').status
                          = authMiddleware(t, sessions, now).status]_vars

\* C7 witness: a user with two sessions logged one out at time 0; the user's other
\* session and a session of another user are still in the cache.
C7_Witness ==
    /\ out.kind = "logout" /\ out.status = 200 /\ now = 0
    /\ \E t1, t2, t3 \in issued :
          /\ t1.userId = t2.userId /\ t3.userId # t1.userId
          /\ ~HasEntry(t1) /\ HasEntry(t2) /\ HasEntry(t3)

\* C8: every successful register, login and googleAuth uses a tokenId no earlier
\* authentication used, returns a token embedding it with the user's id and email,
\* and writes exactly one session entry, valued that user id, with time-to-live
\* config.session.expiry; no two issued tokens share an entry.
C8_FreshTokenOneEntry ==
    /\ [][\A p \in Reqs : Stored(p) =>
            LET t == loc[p].token IN
            /\ t.tokenId \notin DOMAIN sessions
            /\ \A u \in issued : u.tokenId # t.tokenId
            /\ DOMAIN sessions' = DOMAIN sessions \cup {t.tokenId}
            /\ sessions'[t.tokenId] = [userId |-> loc[p].user.id, expireAt |-> now + sessionExpiry]
            /\ out'.data.accessToken = t
            /\ t.userId = loc[p].user.id /\ t.email = loc[p].user.email
            /\ out'.data.user.id = t.userId /\ out'.data.user.email = t.email]_vars
    /\ [](\A t, u \in issued : t.tokenId = u.tokenId => t = u)

\* C8 witness: a login has just succeeded and two issued tokens each have their entry.
C8_Witness ==
    /\ out.kind = "login" /\ out.status = 200
    /\ Cardinality(issued) >= 2
    /\ \A t \in issued : HasEntry(t)

Hashes == {users[i].password_hash : i \in 1..Len(users)} \ {NullHash}

\* C9: no response of register, login, googleAuth (the user object of the Google
\* redirect included) or GET /auth/me contains a stored password hash.
C9_NoHashInResponses ==
    /\ (out.kind \in {"register", "login", "google"} /\ out.status \in {200, 201, 302}) =>
          /\ "password_hash" \notin DOMAIN out.data
          /\ "password_hash" \notin DOMAIN out.data.user
          /\ "password_hash" \notin DOMAIN out.data.accessToken
          /\ out.data.user.email \notin Hashes
          /\ out.data.accessToken.email \notin Hashes
    /\ (out.kind = "me" /\ out.status = 200) =>
          /\ "password_hash" \notin DOMAIN out.data
          /\ out.data.email \notin Hashes

\* C9 witness: GET /auth/me answered 200 for a user whose record has a password hash.
C9_Witness ==
    /\ out.kind = "me" /\ out.status = 200
    /\ \E i \in 1..Len(users) : users[i].id = out.data.id /\ users[i].password_hash # NullHash

ValidationMsgs == {MsgRequired, MsgEmailFormat, MsgPwShort}
BadEmails      == {EmailBad, NoEmail}
ShortPasswords == {PwShort, NoPassword}

\* C10: register answers a missing or malformed email and a password shorter than 6
\* characters with a validation error, and an email already registered (compared
\* case-insensitively) with the conflict error; none of these creates or changes a
\* user record or a session entry.
C10_RegisterRejects ==
    /\ []((out.kind = "register" /\ (out.email \in BadEmails \/ out.password \in ShortPasswords))
            => (out.status = 400 /\ out.error \in ValidationMsgs))
    /\ [][\A p \in Reqs : (pc[p] = "idle" /\ pc'[p] = "reg_create") =>
            \A i \in 1..Len(users) : toLowerCase(users[i].email) # toLowerCase(loc'[p].email)]_vars
    /\ [][(pc' = pc /\ out' # out /\ out'.kind = "register"
                /\ out'.email \notin BadEmails /\ out'.password \notin ShortPasswords)
            => (out'.status = 400 /\ out'.error = MsgConflict)]_vars
    /\ [][(out' # out /\ out'.kind = "register" /\ out'.status = 400
                /\ out'.error \in ValidationMsgs \cup {MsgConflict})
            => (users' = users /\ sessions' = sessions)]_vars

\* C10 witness: a register with the email in other letter case was answered with
\* the conflict error while the lower-case email is on record.
C10_Witness ==
    /\ out.kind = "register" /\ out.error = MsgConflict /\ out.email = EmailAU
    /\ \E i \in 1..Len(users) : users[i].email = EmailA

\* the records whose email is the given one in lower case and whose hash is the
\* hash of the given password
RegisteredAs(tbl, email, password) ==
    {i \in 1..Len(tbl) :
        /\ tbl[i].email = toLowerCase(email)
        /\ \E salt \in Salts : tbl[i].password_hash = hashPassword(password, salt)}

\* C11: register stores the lower-cased email with the hash of the password, and
\* no later step changes id, email or hash of a record; login is let through to
\* storeSession exactly when a record has the given email (up to letter case) and
\* the hash of the given password, and then answers 200 with that record's id,
\* also when the record has been linked to a Google id in between.
C11_LoginIffRegistered ==
    /\ [][\A p \in Reqs : (pc[p] = "reg_create" /\ pc'[p] = "reg_store") =>
            /\ RegisteredAs(users', loc[p].email, loc[p].password) = {Len(users')}
            /\ loc'[p].user.id = users'[Len(users')].id]_vars
    /\ [][\A i \in 1..Len(users) :
            /\ i <= Len(users')
            /\ users'[i].id = users[i].id
            /\ users'[i].email = users[i].email
            /\ users'[i].password_hash = users[i].password_hash
            /\ users'[i].is_active]_vars
    /\ [][\A p \in Reqs : (pc[p] = "idle" /\ pc'[p] = "login_store") =>
            \E i \in RegisteredAs(users, loc'[p].email, loc'[p].password) :
                loc'[p].user.id = users[i].id]_vars
    /\ [][(out' # out /\ out'.kind = "login" /\ out'.status # 200) =>
            RegisteredAs(users, out'.email, out'.password) = {}]_vars
    /\ [][\A p \in Reqs : (pc[p] = "login_store" /\ pc'[p] = "idle") =>
            /\ out'.status = 200
            /\ out'.data.user.id = loc[p].user.id
            /\ out'.data.accessToken.userId = loc[p].user.id]_vars

\* C11 witness: a login with the email in other letter case was answered 200 for a
\* record that has a password hash and a linked Google id.
C11_Witness ==
    /\ out.kind = "login" /\ out.status = 200 /\ out.email = EmailAU
    /\ \E i \in 1..Len(users) :
          /\ users[i].id = out.data.user.id
          /\ users[i].google_id # Null
          /\ users[i].password_hash # NullHash

\* C12: every user record has a password hash or a google_id.
C12_CredentialPath ==
    \A i \in 1..Len(users) : users[i].password_hash # NullHash \/ users[i].google_id # Null

\* C12 witness: one record has both a password hash and a google_id, another one
\* has a google_id only.
C12_Witness ==
    \E i, j \in 1..Len(users) :
        /\ users[i].password_hash # NullHash /\ users[i].google_id # Null
        /\ users[j].password_hash = NullHash /\ users[j].google_id # Null

Creating(p) == pc[p] \in {"reg_create", "g_create"} /\ pc'[p] # pc[p]

\* C13: stored emails are lower-case, no two records share an email, no two
\* records share a google_id that is not null, and a create or a link that meets
\* an email or google_id already stored fails and leaves the table as it was.
C13_UniqueLowerCase ==
    /\ [](\A i \in 1..Len(users) : users[i].email = toLowerCase(users[i].email))
    /\ [](\A i, j \in 1..Len(users) : users[i].email = users[j].email => i = j)
    /\ [](\A i, j \in 1..Len(users) :
            (users[i].google_id # Null /\ users[i].google_id = users[j].google_id) => i = j)
    /\ [][\A p \in Reqs :
            /\ (Creating(p) /\ \E i \in 1..Len(users) : users[i].email = toLowerCase(loc[p].email))
                  => (users' = users /\ out'.status \in {400, 500} /\ out'.error = MsgUnique)
            /\ ((pc[p] \in {"g_create", "g_update"} /\ pc'[p] # pc[p]
                    /\ \E i \in 1..Len(users) :
                          users[i].google_id = loc[p].googleId /\ users[i].id # loc[p].user.id)
                  => (users' = users /\ out'.status = 500 /\ out'.error = MsgUnique))]_vars

\* C13 witness: of two overlapping requests for one email, the register that
\* spelt it in upper case was refused by the store; one record holds the email.
C13_Witness ==
    /\ out.kind = "register" /\ out.error = MsgUnique /\ out.email = EmailAU
    /\ Cardinality({i \in 1..Len(users) : users[i].email = EmailA}) = 1

\* a step in which a register or login request of the address arrives
Arrives(p, addr) ==
    \/ pc[p] = "idle" /\ pc'[p] \in {"reg_create", "login_store"} /\ loc'[p].addr = addr
    \/ pc' = pc /\ out' # out /\ out'.kind \in {"register", "login"} /\ out'.addr = addr

C15_ListenAfterStores ==
    /\ [](server.phase = "listening" => (server.dbConnected /\ server.redisConnected))
    /\ [](server.redisConnected => server.dbConnected)
    /\ [][server' # server =>
            /\ server.phase \in {"testConnection", "initRedis"}
            /\ server.phase = "testConnection" =>
                  /\ server'.phase \in {"initRedis", "exit1"}
                  /\ server'.phase = "exit1" <=> ~server'.dbConnected
                  /\ ~server'.redisConnected
            /\ server.phase = "initRedis" =>
                  /\ server'.phase \in {"listening", "exit1"}
                  /\ server'.phase = "exit1" <=> ~server'.redisConnected]_vars
    /\ [][(pc' # pc \/ out' # out \/ users' # users \/ sessions' # sessions \/ issued' # issued)
            => server.phase = "listening"]_vars

\* C15 witness: the server listens and has answered a registration with 201.
C15_Witness ==
    /\ server.phase = "listening" /\ server.dbConnected /\ server.redisConnected
    /\ out.kind = "register" /\ out.status = 201

\* C16: a register or login request whose email or password is missing or
\* invalid is answered 400, and 401 is given only to a login with both fields
\* present and to a request whose token or session is not accepted.
C16_MalformedIs400 ==
    /\ (out.kind = "register" /\ RegisterValidate(out.email, out.password) # NoError
            /\ out.status # 429) => out.status = 400
    /\ (out.kind = "login" /\ (Falsy(out.email) \/ Falsy(out.password)) /\ out.status # 429)
            => out.status = 400
    /\ out.status = 401 =>
            \/ out.kind = "login" /\ ~Falsy(out.email) /\ ~Falsy(out.password)
            \/ out.kind \in {"me", "logout"}

\* C17: a register, login, logout or profile request during which an access to
\* PostgreSQL or Redis failed is answered with status 500.
C17_StoreFailureIs500 ==
    (out.kind \in {"register", "login", "logout", "me"} /\ out.error \in {MsgStoreDown, MsgAuthFailed})
        => out.status = 500

\* C18: GET /auth/google/callback is always answered with a redirect, which
\* carries token and user when googleAuth succeeded.
C18_AlwaysRedirects ==
    out.kind = "google" =>
        /\ out.status = 302
        /\ out.error = NoError => ("accessToken" \in DOMAIN out.data /\ "user" \in DOMAIN out.data)

\* C19: GET /auth/me is passed on to the controller exactly for a token that
\* authMiddleware accepts (present, signature valid, not expired, session entry in
\* the cache) and is answered 401 otherwise; the controller answers 200 with the
\* profile of the active record whose id is the token's userId, and 404 when there
\* is no such record.
C19_MeAnswers ==
    /\ [](\A t \in Presentable :
            authMiddleware(t, sessions, now).status = 401
                <=> (t = NoToken \/ t.sig # JwtSecret \/ now >= t.exp \/ ~HasEntry(t)))
    /\ [][\A p \in Reqs : (pc[p] = "idle" /\ pc'[p] = "me_profile") =>
            LET t == loc'[p].token IN
            t \in issued /\ t.sig = JwtSecret /\ now < t.exp /\ HasEntry(t)]_vars
    /\ [][(pc' = pc /\ out' # out /\ out'.kind = "me") =>
            /\ out'.status = 401
            /\ \E t \in Presentable :
                  /\ t = NoToken \/ t.sig # JwtSecret \/ now >= t.exp \/ ~HasEntry(t)
                  /\ authMiddleware(t, sessions, now).error = out'.error]_vars
    /\ [][\A p \in Reqs : (pc[p] = "me_profile" /\ pc'[p] = "idle") =>
            LET uid  == loc[p].token.userId
                rows == {i \in 1..Len(users) : users[i].id = uid /\ users[i].is_active}
            IN  IF rows = {} THEN out'.status = 404 /\ out'.error = MsgNotFound
                ELSE /\ out'.status = 200
                     /\ out'.data.id = uid
                     /\ \E i \in rows : out'.data.email = users[i].email]_vars

\* C19 witness: a profile request with a live session was answered 404 because
\* the record of the token's user is gone, while another record exists.
C19_Witness ==
    /\ out.kind = "me" /\ out.status = 404
    /\ users # <<>>
    /\ sessions # <<>>

\* C20: AuthService.validateSession(tokenId, userId) returns true exactly when the
\* cache holds an entry for tokenId whose value is userId, leaves that entry with
\* its time-to-live as it was, and creates no entry that was absent.
C20_ValidateReadOnly ==
    [][(out'.kind = "validateSession" /\ pc' = pc /\ now' = now
            /\ (out' # out \/ sessions' # sessions)) =>
        LET d == out'.data IN
        /\ d.verdict = (d.tokenId \in DOMAIN sessions /\ sessions[d.tokenId].userId = d.userId)
        /\ d.tokenId \notin DOMAIN sessions => d.tokenId \notin DOMAIN sessions'
        /\ d.tokenId \in DOMAIN sessions =>
              (d.tokenId \in DOMAIN sessions' /\ sessions'[d.tokenId] = sessions[d.tokenId])]_vars

\* C21: authMiddleware and optionalAuth attach a token's payload to the request
\* only when the token's tokenId has an entry in the session cache at that moment.
C21_IdentityOnlyWithSession ==
    /\ [][\A p \in Reqs : Accepted(p) => loc'[p].token.tokenId \in DOMAIN sessions]_vars
    /\ [][(out' # out /\ out'.kind = "optionalAuth" /\ out'.data.reqUser # NoToken)
            => out'.data.reqUser.tokenId \in DOMAIN sessions]_vars

ApiFetchReturned(c) == calls[c].fn = "fetch" /\ calls'[c] = NoCall

\* C22: an ApiClient.fetch call whose response has status 401 ends with neither
\* accessToken nor user in localStorage and the browser sent to /login; a response
\* with any other status leaves accessToken and user as they were.
C22_LogoutOn401 ==
    [][\A c \in Calls : ApiFetchReturned(c) =>
          IF result'.status = 401
          THEN localStorage' = NoItems /\ href' = "/login"
          ELSE localStorage' = localStorage]_vars

\* C23: when logoutServer has completed, localStorage holds neither accessToken
\* nor user and isAuthenticated() is false, whatever localStorage held before and
\* whatever became of the server call.
C23_LogoutServerClears ==
    [][(result' # result /\ result'.fn = "logoutServer")
          => (localStorage' = NoItems /\ ~isAuthenticated(localStorage'))]_vars

\* C24: once the session entry of an issued token is gone (deleted by logout or
\* removed by expiry), no step of the backend brings an entry for that tokenId
\* back, and authMiddleware keeps answering 401 for the token.
C24_RevocationPermanent ==
    [][\A t \in issued : ~HasEntry(t) =>
          /\ t.tokenId \notin DOMAIN sessions'
          /\ authMiddleware(t, sessions', now').status = 401]_vars

\* a step in which authMiddleware has answered 401 or passed the request on
Verified(p) ==
    \/ Accepted(p)
    \/ pc[p] = "idle" /\ pc' = pc /\ out' # out /\ out'.kind \in {"me", "logout"}

\* C25: the step of authMiddleware leaves the session cache and the user table
\* as they are; an entry is written by a completed authentication, with
\* time-to-live config.session.expiry, no step rewrites it or renews its
\* time-to-live, and it is gone when that time has passed, whatever requests its
\* token was used for in between.
C25_VerifyReadOnly ==
    /\ [][\A p \in Reqs : Verified(p) => (sessions' = sessions /\ users' = users)]_vars
    /\ [][\A k \in DOMAIN sessions : k \in DOMAIN sessions' => sessions'[k] = sessions[k]]_vars
    /\ [][\A k \in DOMAIN sessions' \ DOMAIN sessions :
            /\ sessions'[k].expireAt = now + sessionExpiry
            /\ \E p \in Reqs : Stored(p)]_vars
    /\ [](\A k \in DOMAIN sessions : now < sessions[k].expireAt)

\* C25 witness: a request that authMiddleware let through is still being served
\* when the session's time-to-live is over, and a second request with the same
\* token, whose signature still verifies, was answered 401 for the missing session.
C25_Witness ==
    /\ out.kind = "me" /\ out.error = MsgSessionGone
    /\ \E p \in Reqs :
          /\ pc[p] = "me_profile"
          /\ loc[p].token \in issued
          /\ verifyToken(loc[p].token, now)
          /\ ~HasEntry(loc[p].token)
          /\ now >= sessionExpiry
          /\ Cardinality(issued) = 1

\* C26 (as stated): once a record has a google_id, no step changes it to another value.
C26_LinkNeverReplaced ==
    [][\A i \in 1..Len(users) :
          users[i].google_id # Null =>
              (i <= Len(users') /\ users'[i].google_id = users[i].google_id)]_vars

\* C26 (as amended): the google_id of a record changes only in the link step of a
\* googleAuth that found no record by its Google id and found this record by its
\* email; the step sets the record's google_id to the profile's Google id, also
\* when the record carried another one, and that id is then on no other record.
C26_LinkReplacedOnlyByEmailMatch ==
    /\ [][\A i \in 1..Len(users) :
            (i <= Len(users') /\ users'[i].google_id # users[i].google_id) =>
                \E p \in Reqs :
                    /\ Linked(p)
                    /\ loc[p].user.id = users[i].id
                    /\ users[i].email = toLowerCase(loc[p].email)
                    /\ users'[i].google_id = loc[p].googleId
                    /\ \A j \in 1..Len(users) : users[j].google_id # loc[p].googleId]_vars
    /\ [][\A p \in Reqs : Linked(p) =>
            \E i \in 1..Len(users') :
                users'[i].id = loc[p].user.id /\ users'[i].google_id = loc[p].googleId]_vars

\* C26 witness: the googleAuth answered last resolved Google id g1 to a record,
\* and a googleAuth with Google id g2 and the same email has since put g2 on that
\* record.
C26_Witness ==
    /\ out.kind = "google" /\ out.status = 302 /\ out.googleId = "g1"
    /\ \E p \in Reqs :
          /\ pc[p] = "g_store" /\ loc[p].googleId = "g2"
          /\ loc[p].user.id = out.data.user.id
          /\ \E i \in 1..Len(users) : users[i].id = out.data.user.id /\ users[i].google_id = "g2"

\* C27: a register request that is answered with a failure leaves no user record
\* of its own behind, also when it fails after UserModel.create, so the email is
\* still free for a retry.
C27_FailedRegisterNoRecord ==
    [][\A p \in Reqs :
          (pc[p] \in {"reg_create", "reg_store"} /\ pc'[p] = "idle" /\ out'.status # 201) =>
              \A i \in 1..Len(users') : users'[i].id # loc[p].user.id]_vars

\* C28: the value of every session entry is the id of a record of the user table
\* and is the userId embedded in the token that was issued with the entry's tokenId.
C28_EntryNamesTokenUser ==
    \A k \in DOMAIN sessions :
        /\ \E i \in 1..Len(users) : users[i].id = sessions[k].userId
        /\ \A t \in issued : t.tokenId = k => t.userId = sessions[k].userId

\* the answer given in this step to a login that failed, or to a googleAuth whose
\* profile has no email
FailedAuthentication ==
    /\ out' # out
    /\ \/ out'.kind = "login" /\ out'.status = 401
       \/ out'.kind = "google" /\ Falsy(out'.email)

\* C29: a login that fails (missing field, unknown email, record without password
\* hash, wrong password) and a googleAuth whose profile has no email write no
\* session entry, create and change no user record, and issue no token.
C29_FailedAuthChangesNothing ==
    /\ [][FailedAuthentication =>
            /\ sessions' = sessions /\ users' = users
            /\ issued' = issued /\ nextTokenId' = nextTokenId /\ nextUserId' = nextUserId]_vars
    /\ [][(out' # out /\ out'.kind = "login" /\ LoginError(users, out'.email, out'.password) # NoError)
            => out'.status = 401]_vars
    /\ [][(out' # out /\ out'.kind = "google" /\ Falsy(out'.email))
            => (out'.status = 500 /\ out'.error = MsgNoGoogleMail)]_vars

\* C29 witness: a login with a wrong password for a registered email was answered
\* 401 while the session of the registration is in the cache.
C29_Witness ==
    /\ out.kind = "login" /\ out.status = 401 /\ out.error = MsgBadLogin
    /\ out.password = PwOther
    /\ findByEmail(users, out.email) # 0
    /\ users[findByEmail(users, out.email)].password_hash # NullHash
    /\ Cardinality(DOMAIN sessions) = 1 /\ nextTokenId = 2

Holding(q) == queries[q].at = "query"

\* C30: the clients checked out are exactly those held by calls of query() that
\* are at their statement, no two calls hold the same client, and a call that
\* leaves its statement, with rows or with an error, has released its client once;
\* so no client is checked out when no call is at its statement.
C30_ClientReleasedOnce ==
    /\ [](checkedOut = {queries[q].client : q \in {r \in Queries : Holding(r)}})
    /\ [](\A q, r \in Queries :
            (Holding(q) /\ Holding(r) /\ queries[q].client = queries[r].client) => q = r)
    /\ [](\A q \in Queries :
            /\ queries[q].ended \in {"rows", "threw"} => queries[q].released = 1
            /\ queries[q].ended \in {"none", "noClient"} => queries[q].released = 0)
    /\ [][\A q \in Queries : (Holding(q) /\ ~Holding(q)') =>
            /\ queries[q].client \notin checkedOut'
            /\ queries'[q].released = 1]_vars
    /\ []((\A q \in Queries : ~Holding(q)) => checkedOut = {})

\* C30 witness: one call ended with rows, one with an error thrown by its statement,
\* one without getting a client; no call is at its statement and no client is out.
C30_Witness ==
    /\ \E q, r, u \in Queries :
          /\ queries[q].ended = "rows" /\ queries[r].ended = "threw"
          /\ queries[u].ended = "noClient"
    /\ \A q \in Queries : ~Holding(q)
    /\ checkedOut = {}

====
